---- MODULE Spec2Model ----
(***************************************************************************)
(* Model of Nextion/nextion-upload.py: the command-line flow (argument     *)
(* check, serial open, model-name validation) and upload(): baud-rate      *)
(* negotiation (getBaudrate), the baud switch (setDownloadBaudrate) and    *)
(* the chunked transfer with per-chunk acknowledgement (transferFile).     *)
(*                                                                         *)
(* Text and byte strings are sequences of one-element names: an ASCII      *)
(* character is the one-character string of itself, "HT" "LF" "VT" "FF"    *)
(* "CR" are the control characters \t \n \x0b \x0c \r, and the bytes      *)
(* 0x00 0x05 0x15 0x80 0xFF are "x00" "x05" "x15" "x80" "xFF".  The device *)
(* and the file system are the environment: what a read of the device      *)
(* returns is chosen from a finite set of byte strings, and what           *)
(* sys.argv[1] names from a finite set of files.                           *)
(***************************************************************************)
EXTENDS Integers, Sequences, FiniteSets, TLC

(***************************************************************************)
(* Bounds of the model.                                                    *)
(***************************************************************************)
\* the upload file has at most MaxChunks full chunks
MaxChunks == 2

(***************************************************************************)
(* Program constants.                                                      *)
(***************************************************************************)
\* hmif.read(4096)
ChunkSize == 4096
\* ser.read(128)
HandshakeReadLen == 128
\* setDownloadBaudrate(ser, fSize, 115200)
UploadBaud == 115200
\* serial.Serial(sys.argv[2], 9600, timeout=5)
OpenBaud == 9600
\* for baudrate in [115200, 57600, 38400, 19200, 9600]
BaudratesRev == <<9600, 19200, 38400, 57600, 115200>>
BaudratesSix == <<115200, 57600, 38400, 19200, 9600, 4800>>

BaudratesDup == <<115200, 57600, 57600, 19200, 9600>>

Baudrates == <<115200, 57600, 38400, 19200, 9600>>

\* e = b"\xff\xff\xff"
e == <<"xFF", "xFF", "xFF">>

(***************************************************************************)
(* Characters and bytes.                                                   *)
(***************************************************************************)
Digits == {"0", "1", "2", "3", "4", "5", "6", "7", "8", "9"}

DigitVal(c) ==
    CASE c = "0" -> 0 [] c = "1" -> 1 [] c = "2" -> 2 [] c = "3" -> 3
      [] c = "4" -> 4 [] c = "5" -> 5 [] c = "6" -> 6 [] c = "7" -> 7
      [] c = "8" -> 8 [] c = "9" -> 9

DigitChar(d) ==
    CASE d = 0 -> "0" [] d = 1 -> "1" [] d = 2 -> "2" [] d = 3 -> "3"
      [] d = 4 -> "4" [] d = 5 -> "5" [] d = 6 -> "6" [] d = 7 -> "7"
      [] d = 8 -> "8" [] d = 9 -> "9"

\* bytes that are no part of any valid UTF-8 sequence over the byte alphabet
\* of the model (a lone continuation byte 0x80, and 0xFF)
InvalidUtf8 == {"x80", "xFF"}

\* the ASCII whitespace int() strips: space, \t, \n, \x0b, \x0c, \r
Whitespace == {" ", "HT", "LF", "VT", "FF", "CR"}

\* bytes.decode('utf-8', errors='ignore'): undecodable bytes are dropped
IsDecodable(b) == b \notin InvalidUtf8
decode(bs) == SelectSeq(bs, IsDecodable)

\* str.encode(): the text alphabet is ASCII, each character is its own byte
Utf8Byte(c) == c
encode(s) == [i \in 1..Len(s) |-> Utf8Byte(s[i])]

\* sub in s, for byte strings and text alike
Contains(s, sub) ==
    \E i \in 1..(Len(s) - Len(sub) + 1) : SubSeq(s, i, i + Len(sub) - 1) = sub

\* bytes.strip(chars): leading and trailing bytes of the set are removed
RECURSIVE LStrip(_, _)
LStrip(s, chars) ==
    IF s # <<>> /\ Head(s) \in chars THEN LStrip(Tail(s), chars) ELSE s

RECURSIVE RStrip(_, _)
RStrip(s, chars) ==
    IF s # <<>> /\ s[Len(s)] \in chars
    THEN RStrip(SubSeq(s, 1, Len(s) - 1), chars) ELSE s

strip(s, chars) == RStrip(LStrip(s, chars), chars)

\* bytes.split(sep) for a one-byte separator: every separator cuts, empty
\* fields are kept, the result has at least one field
RECURSIVE SplitFrom(_, _, _)
SplitFrom(s, sep, cur) ==
    IF s = <<>> THEN <<cur>>
    ELSE IF Head(s) = sep THEN <<cur>> \o SplitFrom(Tail(s), sep, <<>>)
    ELSE SplitFrom(Tail(s), sep, Append(cur, Head(s)))

split(s, sep) == SplitFrom(s, sep, <<>>)

\* str(n) for n >= 0
RECURSIVE str(_)
str(n) == IF n < 10 THEN <<DigitChar(n)>>
          ELSE Append(str(n \div 10), DigitChar(n % 10))

\* the digit groups of an int() literal: digits, single underscores between
RECURSIVE DigitsOk(_, _)
DigitsOk(s, prevDigit) ==
    IF s = <<>> THEN prevDigit
    ELSE IF Head(s) \in Digits THEN DigitsOk(Tail(s), TRUE)
    ELSE IF Head(s) = "_" THEN prevDigit /\ DigitsOk(Tail(s), FALSE)
    ELSE FALSE

RECURSIVE DigitsValue(_, _)
DigitsValue(s, acc) ==
    IF s = <<>> THEN acc
    ELSE IF Head(s) = "_" THEN DigitsValue(Tail(s), acc)
    ELSE DigitsValue(Tail(s), acc * 10 + DigitVal(Head(s)))

\* int(s): [ok |-> FALSE] stands for ValueError
int(s) ==
    LET t == strip(s, Whitespace)
        signed == t # <<>> /\ Head(t) \in {"+", "-"}
        body == IF signed THEN Tail(t) ELSE t
    IN  IF DigitsOk(body, FALSE)
        THEN [ok |-> TRUE,
              val |-> IF signed /\ Head(t) = "-" THEN 0 - DigitsValue(body, 0)
                      ELSE DigitsValue(body, 0)]
        ELSE [ok |-> FALSE, val |-> 0]

(***************************************************************************)
(* The model-name pattern of __main__.                                     *)
(***************************************************************************)
AllDigits(s) == \A i \in 1..Len(s) : s[i] \in Digits

\* re.compile("^NX\d{4}[TK]\d{3}$").match(s): anchored at the start; "$"
\* matches at the end of the string and also just before a newline that
\* ends the string
PatternMatch(s) ==
    /\ Len(s) \in {10, 11}
    /\ s[1] = "N" /\ s[2] = "X"
    /\ AllDigits(SubSeq(s, 3, 6))
    /\ s[7] \in {"T", "K"}
    /\ AllDigits(SubSeq(s, 8, 10))
    /\ Len(s) = 11 => s[11] = "LF"

(***************************************************************************)
(* Python values.                                                          *)
(***************************************************************************)
\* model_check = None; an absent checkModel is the empty text, which
\* "if checkModel and ..." treats exactly as None
None == << >>

\* ser.timeout in seconds, as the fraction <<numerator, denominator>>
\* 3000 / baudrate + .2  =  (15000 + baudrate) / (5 * baudrate)
ProbeTimeout(baudrate) == <<15000 + baudrate, 5 * baudrate>>
\* ser.timeout = .5
HalfSecond == <<1, 2>>
\* ser.timeout = 5
FiveSeconds == <<5, 1>>

\* before serial.Serial(...) there is no connection object
NoSer == [baudrate |-> 0, timeout |-> <<0, 1>>, is_open |-> FALSE]

(***************************************************************************)
(* The serial line: what was written and read, in order, each with the     *)
(* baud rate of the connection at that moment.  A write of file data is    *)
(* recorded by its offset and length, the file's content being opaque.     *)
(***************************************************************************)
WriteEv(bytes, baud) ==
    [op |-> "write", kind |-> "bytes", bytes |-> bytes, off |-> 0,
     n |-> Len(bytes), baud |-> baud]

DataEv(off, n, baud) ==
    [op |-> "write", kind |-> "file", bytes |-> << >>, off |-> off,
     n |-> n, baud |-> baud]

ReadEv(bytes, n, baud) ==
    [op |-> "read", kind |-> "bytes", bytes |-> bytes, off |-> 0,
     n |-> n, baud |-> baud]

\* ser.read(n) returns at most n bytes of what the device sent
Take(bytes, n) == SubSeq(bytes, 1, IF Len(bytes) < n THEN Len(bytes) ELSE n)

connect == <<"c", "o", "n", "n", "e", "c", "t">>
comok == <<"c", "o", "m", "o", "k">>
ACK == <<"x05">>

WhmiWriNoDelim(fSz, baudrate) ==
    encode(<<"w", "h", "m", "i", "-", "w", "r", "i", " ">> \o str(fSz)
           \o <<",">> \o str(baudrate) \o <<",", "0">>)

\* ("whmi-wri " + str(fSize) + "," + str(baudrate) + ",0").encode() + e
WhmiWri(fSz, baudrate) ==
    encode(<<"w", "h", "m", "i", "-", "w", "r", "i", " ">> \o str(fSz)
           \o <<",">> \o str(baudrate) \o <<",", "0">>) \o e

(***************************************************************************)
(* getBaudrate: the body of the loop for one candidate, given what the     *)
(* read returned.  outcome is "next" (no comok: go on with the next        *)
(* candidate), "True" or "False" (the return value), or the exception that *)
(* leaves the function.                                                    *)
(***************************************************************************)
DeviceInfoLines ==
    <<"Connected Speed", "Status", "Touchscreen", "Model",
      "Firmware version", "MCU code", "Serial", "Flash size">>

\* the parsing and the two checks made when the response contains comok
ParseResponseEagerInt(r, fSz, checkModel) ==
    LET parts == split(strip(r, {"xFF", "x00"}), ",")
        status == parts[1]
        st == split(status, " ")
        model == parts[3]
        flash == decode(parts[7])
        size == int(flash)
    IN  IF Len(parts) # 7
        THEN [outcome |-> "ValueError", out |-> << >>]
        ELSE IF Len(st) < 2
        THEN [outcome |-> "IndexError", out |-> << >>]
        ELSE IF ~size.ok
        THEN [outcome |-> "ValueError", out |-> DeviceInfoLines]
        ELSE IF fSz # 0 /\ fSz > size.val
        THEN [outcome |-> "False",
              out |-> Append(DeviceInfoLines, "File too big!")]
        ELSE IF checkModel # None /\ ~Contains(model, encode(checkModel))
        THEN [outcome |-> "False",
              out |-> Append(DeviceInfoLines, "Wrong Display!")]
        ELSE [outcome |-> "True", out |-> DeviceInfoLines]

ParseResponse(r, fSz, checkModel) ==
    LET parts == split(strip(r, {"xFF", "x00"}), ",")
        status == parts[1]
        st == split(status, " ")
        model == parts[3]
        flash == decode(parts[7])
        size == int(flash)
    IN  IF Len(parts) # 7
        THEN [outcome |-> "ValueError", out |-> << >>]
        ELSE IF Len(st) < 2
        THEN [outcome |-> "IndexError", out |-> << >>]
        ELSE IF fSz # 0 /\ ~size.ok
        THEN [outcome |-> "ValueError", out |-> DeviceInfoLines]
        ELSE IF fSz # 0 /\ fSz > size.val
        THEN [outcome |-> "False",
              out |-> Append(DeviceInfoLines, "File too big!")]
        ELSE IF checkModel # None /\ ~Contains(model, encode(checkModel))
        THEN [outcome |-> "False",
              out |-> Append(DeviceInfoLines, "Wrong Display!")]
        ELSE [outcome |-> "True", out |-> DeviceInfoLines]

getBaudrateStep(s, baudrate, resp, fSz, checkModel) ==
    LET s1 == [s EXCEPT !.baudrate = baudrate,
                        !.timeout = ProbeTimeout(baudrate)]
        r == Take(resp, HandshakeReadLen)
        io == <<WriteEv(e, s1.baudrate), WriteEv(connect, s1.baudrate),
                WriteEv(e, s1.baudrate),
                ReadEv(r, HandshakeReadLen, s1.baudrate)>>
        success == Contains(r, comok)
        parsed == ParseResponse(r, fSz, checkModel)
    IN  IF success
        THEN [ser |-> s1, io |-> io, outcome |-> parsed.outcome,
              out |-> <<"Trying ok">> \o parsed.out]
        ELSE [ser |-> s1, io |-> io, outcome |-> "next",
              out |-> <<"Trying fail">>]

(***************************************************************************)
(* setDownloadBaudrate, given what the one-byte read returned.             *)
(***************************************************************************)
setDownloadBaudrateSkip(s, fSz, baudrate, resp) ==
    LET r == Take(resp, 1)
        s1 == [s EXCEPT !.baudrate = baudrate, !.timeout = HalfSecond]
        io == <<WriteEv(<< >>, s.baudrate),
                WriteEv(WhmiWri(fSz, baudrate), s.baudrate),
                ReadEv(r, 1, s1.baudrate)>>
    IN  IF s.baudrate = baudrate
        THEN [ser |-> s1, io |-> << >>, ok |-> TRUE,
              out |-> <<"Upload Speed ok">>]
        ELSE IF Contains(r, ACK)
        THEN [ser |-> s1, io |-> io, ok |-> TRUE,
              out |-> <<"Upload Speed ok">>]
        ELSE [ser |-> s1, io |-> io, ok |-> FALSE,
              out |-> <<"Upload Speed fail">>]

setDownloadBaudrateAnyByte(s, fSz, baudrate, resp) ==
    LET r == Take(resp, 1)
        s1 == [s EXCEPT !.baudrate = baudrate, !.timeout = HalfSecond]
        io == <<WriteEv(<< >>, s.baudrate),
                WriteEv(WhmiWri(fSz, baudrate), s.baudrate),
                ReadEv(r, 1, s1.baudrate)>>
    IN  [ser |-> s1, io |-> io, ok |-> r # << >>,
         out |-> <<"Upload Speed ok">>]

setDownloadBaudrateEmptyOk(s, fSz, baudrate, resp) ==
    LET r == Take(resp, 1)
        s1 == [s EXCEPT !.baudrate = baudrate, !.timeout = HalfSecond]
        io == <<WriteEv(<< >>, s.baudrate),
                WriteEv(WhmiWri(fSz, baudrate), s.baudrate),
                ReadEv(r, 1, s1.baudrate)>>
    IN  [ser |-> s1, io |-> io, ok |-> Contains(ACK, r),
         out |-> <<"Upload Speed ok">>]

setDownloadBaudrateNoSwitch(s, fSz, baudrate, resp) ==
    LET r == Take(resp, 1)
        s1 == [s EXCEPT !.timeout = HalfSecond]
        io == <<WriteEv(<< >>, s.baudrate),
                WriteEv(WhmiWri(fSz, baudrate), s.baudrate),
                ReadEv(r, 1, s1.baudrate)>>
    IN  IF Contains(r, ACK)
        THEN [ser |-> s1, io |-> io, ok |-> TRUE,
              out |-> <<"Upload Speed ok">>]
        ELSE [ser |-> s1, io |-> io, ok |-> FALSE,
              out |-> <<"Upload Speed fail">>]

setDownloadBaudrateSwitchFirst(s, fSz, baudrate, resp) ==
    LET r == Take(resp, 1)
        s1 == [s EXCEPT !.baudrate = baudrate, !.timeout = HalfSecond]
        io == <<WriteEv(<< >>, s1.baudrate),
                WriteEv(WhmiWri(fSz, baudrate), s1.baudrate),
                ReadEv(r, 1, s1.baudrate)>>
    IN  IF Contains(r, ACK)
        THEN [ser |-> s1, io |-> io, ok |-> TRUE,
              out |-> <<"Upload Speed ok">>]
        ELSE [ser |-> s1, io |-> io, ok |-> FALSE,
              out |-> <<"Upload Speed fail">>]

setDownloadBaudrate(s, fSz, baudrate, resp) ==
    LET r == Take(resp, 1)
        s1 == [s EXCEPT !.baudrate = baudrate, !.timeout = HalfSecond]
        io == <<WriteEv(<< >>, s.baudrate),
                WriteEv(WhmiWri(fSz, baudrate), s.baudrate),
                ReadEv(r, 1, s1.baudrate)>>
    IN  IF Contains(r, ACK)
        THEN [ser |-> s1, io |-> io, ok |-> TRUE,
              out |-> <<"Upload Speed ok">>]
        ELSE [ser |-> s1, io |-> io, ok |-> FALSE,
              out |-> <<"Upload Speed fail">>]

(***************************************************************************)
(* Floating point, for the progress message.  A positive double is         *)
(* [m, e]: m is its 53-bit significand, most significant bit first, and    *)
(* its value is m * 2^e.  Division and multiplication round to nearest,    *)
(* ties to even, as IEEE 754 arithmetic does; '%.1f' rounds the exact      *)
(* value of the double to the nearest tenth, ties to even.                 *)
(***************************************************************************)
\* the element of a one-element set; { F(v) : v \in {x} } computes x once
The(S) == CHOOSE v \in S : TRUE

\* the length of the binary numeral of n, for 0 <= n < 2^30
BitLen(n) ==
    The({ CHOOSE w \in 0..30 : v < 2^w /\ (w = 0 \/ v >= 2^(w - 1))
          : v \in {n} })

\* the w low bits of n, and the binary numeral of n (empty for 0)
FixedBits(n, w) == The({ [i \in 1..w |-> (v \div 2^(w - i)) % 2] : v \in {n} })
BitsOf(n) == The({ FixedBits(v, BitLen(v)) : v \in {n} })

\* the number a numeral of at most 30 bits stands for
IntOfShort(bits) ==
    The({ LET F[i \in 0..Len(b)] == IF i = 0 THEN 0 ELSE 2 * F[i - 1] + b[i]
          IN  F[Len(b)]
          : b \in {bits} })

IntOf(bits) ==
    IF Len(bits) <= 15 THEN IntOfShort(bits)
    ELSE IntOfShort(SubSeq(bits, 1, Len(bits) - 15)) * 2^15
         + IntOfShort(SubSeq(bits, Len(bits) - 14, Len(bits)))

\* bits + 1: the last 0 becomes 1 and the ones after it 0
Inc(bits) ==
    The({ IF \A i \in 1..Len(b) : b[i] = 1
          THEN <<1>> \o [i \in 1..Len(b) |-> 0]
          ELSE The({ [i \in 1..Len(b) |->
                        IF i < k THEN b[i] ELSE IF i = k THEN 1 ELSE 0]
                     : k \in { CHOOSE i \in 1..Len(b) :
                                 /\ b[i] = 0
                                 /\ \A z \in (i + 1)..Len(b) : b[z] = 1 } })
          : b \in {bits} })

\* bits * 2^exp, plus a non-zero tail below the last bit when sticky,
\* rounded to 53 bits; bits has at least 54 bits and starts with 1
Round53(bits, sticky, exp) ==
    The({ LET keep == SubSeq(b, 1, 53)
              tail == sticky \/ \E i \in 55..Len(b) : b[i] = 1
              e1 == exp + Len(b) - 53
              up == b[54] = 1 /\ (tail \/ b[53] = 1)
          IN  The({ IF Len(m1) = 54
                    THEN [m |-> SubSeq(m1, 1, 53), e |-> e1 + 1]
                    ELSE [m |-> m1, e |-> e1]
                    : m1 \in { IF up THEN Inc(keep) ELSE keep } })
          : b \in {bits} })

\* (r * 2^k) % d, for 0 <= k <= 27 and r < d < 2^30
Rem(r, d, k) ==
    LET F[i \in 0..k] == IF i = 0 THEN r ELSE (2 * F[i - 1]) % d
    IN  F[k]

\* long division of r by d, r < d: the remainder after k bits of the
\* quotient, and the k-th bit
RemAt(r, d, k) ==
    IF k <= 27 THEN Rem(r, d, k) ELSE Rem(Rem(r, d, 27), d, k - 27)
QuotientBit(r, d, k) == IF 2 * RemAt(r, d, k - 1) >= d THEN 1 ELSE 0

\* a / float(b) for integers 0 < a, b < 2^30: a is scaled by a power of two
\* that brings it to the length of b, and the quotient is taken to 54 bits,
\* those of its integer part first
FloatDiv(a, b) ==
    The({ LET s == IF BitLen(v.b) > BitLen(v.a)
                   THEN BitLen(v.b) - BitLen(v.a) ELSE 0
              a1 == v.a * 2^s
          IN  The({ LET nf == 54 - Len(whole)
                        frac == [i \in 1..nf |-> QuotientBit(a1 % v.b, v.b, i)]
                    IN  Round53(whole \o frac, RemAt(a1 % v.b, v.b, nf) # 0,
                                0 - nf - s)
                    : whole \in {BitsOf(a1 \div v.b)} })
          : v \in {[a |-> a, b |-> b]} })

\* the bits of bits * k, for 53 bits and 0 < k <= 100
MulSmall(bits, k) ==
    The({ The({ The({ BitsOf(p1) \o FixedBits(p2 % 2^18, 18)
                        \o FixedBits(p3 % 2^17, 17)
                      : p1 \in {IntOf(SubSeq(bits, 1, 18)) * k + p2 \div 2^18} })
                : p2 \in {IntOf(SubSeq(bits, 19, 36)) * k + p3 \div 2^17} })
          : p3 \in {IntOf(SubSeq(bits, 37, 53)) * k} })

\* x * 100.0
FloatMul100(x) ==
    The({ Round53(p, FALSE, x.e) : p \in {MulSmall(x.m, 100)} })

\* '%3.1f' % x, in tenths, for a double 0 < x < 2^26
Tenths(x) ==
    The({ LET il == Len(n) + x.e
              whole == IF il <= 0 THEN 0 ELSE IntOf(SubSeq(n, 1, il))
              half == il >= 0 /\ n[il + 1] = 1
              rest == IF il >= 0 THEN SubSeq(n, il + 2, Len(n)) ELSE << >>
              tail == \E i \in 1..Len(rest) : rest[i] = 1
          IN  IF half /\ (tail \/ whole % 2 = 1) THEN whole + 1 ELSE whole
          : n \in {MulSmall(x.m, 10)} })

\* '%3.1f' % (dcount / float(fSize) * 100.0): the percentage printed, in
\* tenths, for 0 < dcount, fSize < 2^30 and a percentage below 2^26
Percent(count, fSz) ==
    The({ Tenths(y) : y \in { FloatMul100(x) : x \in {FloatDiv(count, fSz)} } })

(***************************************************************************)
(* transferFile: the body of the loop for one chunk of n bytes at offset   *)
(* pos, given what the one-byte read returned.                             *)
(***************************************************************************)
transferChunkNoCheck(s, pos, n, fSz, resp) ==
    LET r == Take(resp, 1)
        s1 == [s EXCEPT !.timeout = HalfSecond]
    IN  IF fSz = 0
        THEN [ser |-> [s EXCEPT !.timeout = FiveSeconds],
              io |-> <<DataEv(pos, n, s.baudrate)>>,
              outcome |-> "ZeroDivisionError"]
        ELSE [ser |-> s1,
              io |-> <<DataEv(pos, n, s.baudrate),
                       ReadEv(r, 1, s1.baudrate)>>,
              outcome |-> "ok"]

\* With fSize = 0 the progress message divides by zero, after the write and
\* before the read: outcome is then the exception, else "ok" (the loop goes
\* on) or "False" (return False)
transferChunk(s, pos, n, fSz, resp) ==
    LET r == Take(resp, 1)
        s1 == [s EXCEPT !.timeout = HalfSecond]
    IN  IF fSz = 0
        THEN [ser |-> [s EXCEPT !.timeout = FiveSeconds],
              io |-> <<DataEv(pos, n, s.baudrate)>>,
              outcome |-> "ZeroDivisionError"]
        ELSE [ser |-> s1,
              io |-> <<DataEv(pos, n, s.baudrate),
                       ReadEv(r, 1, s1.baudrate)>>,
              outcome |-> IF Contains(r, ACK) THEN "ok" ELSE "False"]

(***************************************************************************)
(* Inputs: the command line, the file system and the device.               *)
(***************************************************************************)
NX3224T024 == <<"N", "X", "3", "2", "2", "4", "T", "0", "2", "4">>
NX4832K035 == <<"N", "X", "4", "8", "3", "2", "K", "0", "3", "5">>
Revision == <<"_", "0", "1", "1", "R">>

\* sys.argv[3] in the runs of the whole program
ModelArgs ==
    { NX3224T024,
      Append(NX3224T024, "LF"),
      <<"n", "x", "3", "2", "2", "4", "t", "0", "2", "4">> }

\* sizes of the upload file: empty, one byte, and around each chunk boundary
FileSizes ==
    {0, 1} \cup
    { k * ChunkSize + d : k \in 1..MaxChunks, d \in {-1, 0} } \cup
    { k * ChunkSize + 1 : k \in 1..(MaxChunks - 1) }

\* what sys.argv[1] names.  exists: os.path.getsize succeeds, and gives
\* size; oserror: the OSError that getsize raises (exists is FALSE) or that
\* open raises (exists is TRUE), "none" when neither raises; len: the
\* number of bytes the file gives when it is read.
RegularFile(sz) ==
    [exists |-> TRUE, size |-> sz, len |-> sz, oserror |-> "none"]

Files ==
    { RegularFile(sz) : sz \in FileSizes }
    \cup
    \* a file whose length is not the size getsize reports: /proc/version
    \* (size 0, 124 bytes), a file that grew or that was cut after getsize
    { [exists |-> TRUE, size |-> p[1], len |-> p[2], oserror |-> "none"]
        : p \in { <<0, 124>>, <<ChunkSize, 2 * ChunkSize>>,
                  <<2 * ChunkSize, ChunkSize>> } }
    \cup
    \* a missing file, and a path through a regular file
    { [exists |-> FALSE, size |-> 0, len |-> 0, oserror |-> x]
        : x \in {"FileNotFoundError", "NotADirectoryError"} }
    \cup
    \* a directory, and a file without read permission
    { [exists |-> TRUE, size |-> ChunkSize, len |-> 0, oserror |-> x]
        : x \in {"IsADirectoryError", "PermissionError"} }

\* len(sys.argv), the file sys.argv[1] names, whether sys.argv[2] can be
\* opened, and sys.argv[3] (None when absent)
Argv(c, f, d, m) ==
    [argc |-> c, exists |-> f.exists, size |-> f.size, len |-> f.len,
     oserror |-> f.oserror, devOk |-> d, model |-> m]

ArgvSet ==
    { Argv(c, RegularFile(0), TRUE, None) : c \in {2, 5} }
    \cup
    { Argv(3, RegularFile(0), FALSE, None) }
    \cup
    { Argv(3, f, TRUE, None) : f \in Files }
    \cup
    { Argv(4, RegularFile(sz), TRUE, m) : sz \in FileSizes, m \in ModelArgs }

RECURSIVE Join(_)
Join(fields) ==
    IF Len(fields) = 1 THEN fields[1]
    ELSE fields[1] \o <<",">> \o Join(Tail(fields))

\* what the device answers to connect: comok <touch>,<reserved>,<model>,
\* <firmware>,<mcu>,<serial>,<flash size> and the delimiter
Handshake(status, model, flash) ==
    Join(<<status, <<"3", "0", "6", "0", "1", "-", "0">>, model,
           <<"1", "6", "3">>, <<"6", "1", "4", "8", "8">>,
           <<"D", "2", "6", "4">>, flash>>) \o e

Comok1 == comok \o <<" ", "1">>

\* responses without comok: nothing within the timeout, and line noise
NoComokResponses == { << >>, <<"x80", "c", "o", "m", "xFF">> }

ComokResponses ==
    { Handshake(Comok1, NX3224T024 \o Revision, <<"4", "0", "9", "6">>),
      Handshake(Comok1, NX4832K035 \o Revision, <<"4", "0", "9", "6">>),
      Handshake(Comok1, NX3224T024 \o Revision,
                <<"1", "6", "7", "7", "7", "2", "1", "6">>),
      <<"x00", "xFF">> \o
        Handshake(comok \o <<" ", "0">>, NX3224T024 \o Revision,
                  <<"4", "0", "x80", "9", "7">>),
      \* the status field without the touchscreen flag
      Handshake(comok, NX3224T024 \o Revision, <<"4", "0", "9", "6">>),
      \* the same from the other model
      Handshake(comok, NX4832K035 \o Revision, <<"4", "0", "9", "6">>),
      \* a flash size inside white space
      Handshake(Comok1, NX3224T024 \o Revision,
                <<"HT", "4", "0", "9", "6", "CR">>),
      \* a flash size that is no integer
      Handshake(Comok1, NX3224T024 \o Revision, <<"4", "M">>),
      \* six fields
      Join(<<Comok1, NX3224T024 \o Revision, <<"1", "6", "3">>,
             <<"6", "1", "4", "8", "8">>, <<"D", "2", "6", "4">>,
             <<"4", "0", "9", "6">>>>) \o e }

HandshakeResponses == NoComokResponses \cup ComokResponses

\* what a one-byte read returns: nothing, ACK, NAK
AckResponses == { << >>, ACK, <<"x15">> }

(***************************************************************************)
(* State.                                                                  *)
(***************************************************************************)
VARIABLES
    pc,          \* where the program is
    argv,        \* the command line and what it names
    ser,         \* the serial connection object
    model_check, \* __main__'s model_check
    fSize,       \* upload's fSize
    probe,       \* index in Baudrates of getBaudrate's next candidate
    hmif,        \* transferFile's file object: [open, pos]
    dcount,      \* transferFile's dcount
    progress,    \* the percentages written to stdout, in tenths ("%3.1f")
    wire,        \* reads and writes on the serial line so far
    out,         \* messages printed so far
    result,      \* how each stage ended: "none", "ok", "fail", an exception
    exitCode,    \* exit status, -1 while running
    run,         \* 1: first invocation, 2: the same command run again
    prev         \* wire, result and exitCode of the first invocation

vars == <<pc, argv, ser, model_check, fSize, probe, hmif, dcount, progress,
          wire, out, result, exitCode, run, prev>>

NoResult == [neg |-> "none", up |-> "none", xfer |-> "none"]
NoPrev == [wire |-> << >>, result |-> NoResult, exitCode |-> -1]
Closed == [open |-> FALSE, pos |-> 0]

\* the state of a process that has just been started
Started ==
    /\ pc = "main"
    /\ ser = NoSer
    /\ model_check = None
    /\ fSize = 0
    /\ probe = 1
    /\ hmif = Closed
    /\ dcount = 0
    /\ progress = << >>
    /\ wire = << >>
    /\ out = << >>
    /\ result = NoResult
    /\ exitCode = -1

Init ==
    /\ argv \in ArgvSet
    /\ Started
    /\ run = 1
    /\ prev = NoPrev

(***************************************************************************)
(* The device, as the second invocation sees it: it is at the upload baud  *)
(* rate already, so it gives the answer it gave to connect at the first    *)
(* candidate, and acknowledges as it did before.                           *)
(***************************************************************************)
IsAckRead(ev) == ev.op = "read" /\ ev.n = 1
AckReadsOf(w) == SelectSeq(w, IsAckRead)

ComokSeen(w) ==
    { w[i].bytes : i \in { j \in 1..Len(w) :
                             w[j].op = "read" /\ Contains(w[j].bytes, comok) } }

\* what ser.read(128) may return to the probe of candidate i
ProbeReads(i) ==
    IF run = 1 THEN HandshakeResponses
    ELSE IF i = 1 /\ ComokSeen(prev.wire) # {} THEN ComokSeen(prev.wire)
    ELSE NoComokResponses

\* what the k-th ser.read(1) of the run may return
AckReads(k) ==
    IF run = 2 /\ k <= Len(AckReadsOf(prev.wire))
    THEN { AckReadsOf(prev.wire)[k].bytes }
    ELSE AckResponses

(***************************************************************************)
(* Actions.                                                                *)
(***************************************************************************)
\* exit(code), after printing msgs
Exit(code, msgs) ==
    /\ pc' = "exited"
    /\ exitCode' = code
    /\ out' = out \o msgs

\* an exception nobody catches: the traceback, exit status 1
Raise(exc, msgs) == Exit(1, msgs \o <<"Traceback: " \o exc>>)

\* __main__: the argument count
Main_ArgCheck ==
    /\ pc = "main"
    /\ IF argv.argc \notin {3, 4}
       THEN Exit(1, <<"Usage">>)
       ELSE pc' = "open" /\ UNCHANGED <<exitCode, out>>
    /\ UNCHANGED <<argv, ser, model_check, fSize, probe, hmif, dcount,
                   progress, wire, result, run, prev>>

\* __main__: ser = serial.Serial(sys.argv[2], 9600, timeout=5)
Main_OpenSerial ==
    /\ pc = "open"
    /\ IF argv.devOk
       THEN /\ ser' = [baudrate |-> OpenBaud, timeout |-> FiveSeconds,
                       is_open |-> TRUE]
            /\ pc' = "validate"
            /\ UNCHANGED <<exitCode, out>>
       ELSE /\ Exit(1, <<"Could not open serial device">>)
            /\ UNCHANGED ser
    /\ UNCHANGED <<argv, model_check, fSize, probe, hmif, dcount, progress,
                   wire, result, run, prev>>

Main_ValidateModelSkip ==
    /\ pc = "validate"
    /\ model_check' = IF argv.argc = 4 THEN argv.model ELSE None
    /\ pc' = "upload"
    /\ UNCHANGED <<argv, ser, fSize, probe, hmif, dcount, progress, wire,
                   result, run, prev, exitCode, out>>

\* __main__: the model-name check, made before upload() is called
Main_ValidateModel ==
    /\ pc = "validate"
    /\ model_check' = IF argv.argc = 4 THEN argv.model ELSE None
    /\ IF argv.argc = 4 /\ ~PatternMatch(argv.model)
       THEN Exit(1, <<"Invalid model name">>)
       ELSE pc' = "upload" /\ UNCHANGED <<exitCode, out>>
    /\ UNCHANGED <<argv, ser, fSize, probe, hmif, dcount, progress, wire,
                   result, run, prev>>

\* upload: fSize = os.path.getsize(filename)
Upload_GetSize ==
    /\ pc = "upload"
    /\ IF argv.exists
       THEN /\ fSize' = argv.size
            /\ pc' = "getBaudrate"
            /\ UNCHANGED <<exitCode, out>>
       ELSE /\ Raise(argv.oserror, << >>)
            /\ UNCHANGED fSize
    /\ probe' = 1
    /\ UNCHANGED <<argv, ser, model_check, hmif, dcount, progress, wire,
                   result, run, prev>>

\* getBaudrate: one candidate; and what upload does with the return value
GetBaudrate_Probe ==
    /\ pc = "getBaudrate"
    /\ \E resp \in ProbeReads(probe) :
         LET step == getBaudrateStep(ser, Baudrates[probe], resp, fSize,
                                     model_check)
             last == probe = Len(Baudrates)
         IN  /\ ser' = step.ser
             /\ wire' = wire \o step.io
             /\ IF step.outcome = "next" /\ ~last
                THEN /\ probe' = probe + 1
                     /\ out' = out \o step.out
                     /\ UNCHANGED <<pc, exitCode, result>>
                ELSE IF step.outcome = "True"
                THEN /\ pc' = "setDownloadBaudrate"
                     /\ out' = out \o step.out
                     /\ result' = [result EXCEPT !.neg = "ok"]
                     /\ UNCHANGED <<probe, exitCode>>
                ELSE IF step.outcome \in {"next", "False"}
                THEN /\ Exit(1, Append(step.out, "Could not find baudrate"))
                     /\ result' = [result EXCEPT !.neg = "fail"]
                     /\ UNCHANGED probe
                ELSE /\ Raise(step.outcome, step.out)
                     /\ result' = [result EXCEPT !.neg = step.outcome]
                     /\ UNCHANGED probe
    /\ UNCHANGED <<argv, model_check, fSize, hmif, dcount, progress, run,
                   prev>>

\* upload: setDownloadBaudrate(ser, fSize, 115200)
SetDownloadBaudrate ==
    /\ pc = "setDownloadBaudrate"
    /\ \E resp \in AckReads(1) :
         LET res == setDownloadBaudrate(ser, fSize, UploadBaud, resp)
         IN  /\ ser' = res.ser
             /\ wire' = wire \o res.io
             /\ IF res.ok
                THEN /\ pc' = "transferFile"
                     /\ out' = out \o res.out
                     /\ result' = [result EXCEPT !.up = "ok"]
                     /\ UNCHANGED exitCode
                ELSE /\ Exit(1, Append(res.out, "Could not set upload speed"))
                     /\ result' = [result EXCEPT !.up = "fail"]
    /\ UNCHANGED <<argv, model_check, fSize, probe, hmif, dcount, progress,
                   run, prev>>

\* transferFile: with open(filename, 'rb') as hmif: dcount = 0
TransferFile_Open ==
    /\ pc = "transferFile"
    /\ IF argv.oserror = "none"
       THEN /\ hmif' = [open |-> TRUE, pos |-> 0]
            /\ dcount' = 0
            /\ pc' = "chunk"
            /\ UNCHANGED <<out, result, exitCode>>
       ELSE /\ Raise(argv.oserror, << >>)
            /\ result' = [result EXCEPT !.xfer = argv.oserror]
            /\ UNCHANGED <<hmif, dcount>>
    /\ UNCHANGED <<argv, ser, model_check, fSize, probe, progress, wire, run,
                   prev>>

ReadLenFull(pos, length) ==
    IF length - pos <= 0 THEN 0 ELSE ChunkSize

\* hmif.read(4096) at offset pos of a file of that length returns this many
\* bytes
ReadLen(pos, length) ==
    IF length - pos < ChunkSize THEN length - pos ELSE ChunkSize

TransferFile_ChunkLeak ==
    /\ pc = "chunk"
    /\ ReadLen(hmif.pos, argv.len) > 0
    /\ \E resp \in AckReads(2 + Len(progress)) :
         LET n == ReadLen(hmif.pos, argv.len)
             res == transferChunk(ser, hmif.pos, n, fSize, resp)
         IN  /\ ser' = res.ser
             /\ wire' = wire \o res.io
             /\ dcount' = dcount + n
             /\ progress' = IF res.outcome = "ZeroDivisionError" THEN progress
                            ELSE Append(progress, Percent(dcount + n, fSize))
             /\ hmif' = [hmif EXCEPT !.pos = hmif.pos + n]
             /\ IF res.outcome = "ok"
                THEN UNCHANGED <<pc, out, result, exitCode>>
                ELSE IF res.outcome = "False"
                THEN /\ Exit(1, <<"Transfer failed!">>)
                     /\ result' = [result EXCEPT !.xfer = "fail"]
                ELSE /\ Raise(res.outcome, << >>)
                     /\ result' = [result EXCEPT !.xfer = res.outcome]
    /\ UNCHANGED <<argv, model_check, fSize, probe, run, prev>>

\* transferFile: one pass of the loop that has data to send; upload's
\* exit(1) when it returns False, the traceback when it raises
TransferFile_Chunk ==
    /\ pc = "chunk"
    /\ ReadLen(hmif.pos, argv.len) > 0
    /\ \E resp \in AckReads(2 + Len(progress)) :
         LET n == ReadLen(hmif.pos, argv.len)
             res == transferChunk(ser, hmif.pos, n, fSize, resp)
         IN  /\ ser' = res.ser
             /\ wire' = wire \o res.io
             /\ dcount' = dcount + n
             /\ progress' = IF res.outcome = "ZeroDivisionError" THEN progress
                            ELSE Append(progress, Percent(dcount + n, fSize))
             /\ IF res.outcome = "ok"
                THEN /\ hmif' = [hmif EXCEPT !.pos = hmif.pos + n]
                     /\ UNCHANGED <<pc, out, result, exitCode>>
                ELSE IF res.outcome = "False"
                THEN /\ hmif' = Closed
                     /\ Exit(1, <<"Transfer failed!">>)
                     /\ result' = [result EXCEPT !.xfer = "fail"]
                ELSE /\ hmif' = Closed
                     /\ Raise(res.outcome, << >>)
                     /\ result' = [result EXCEPT !.xfer = res.outcome]
    /\ UNCHANGED <<argv, model_check, fSize, probe, run, prev>>

\* transferFile: the pass that finds the file exhausted; upload's exit(0)
TransferFile_End ==
    /\ pc = "chunk"
    /\ ReadLen(hmif.pos, argv.len) = 0
    /\ hmif' = Closed
    /\ result' = [result EXCEPT !.xfer = "ok"]
    /\ Exit(0, <<"File transferred successfully">>)
    /\ UNCHANGED <<argv, ser, model_check, fSize, probe, dcount, progress,
                   wire, run, prev>>

\* the user runs the same command again, against the device as the first
\* invocation left it
Reinvoke ==
    /\ pc = "exited"
    /\ run = 1
    /\ run' = 2
    /\ prev' = [wire |-> wire, result |-> result, exitCode |-> exitCode]
    /\ pc' = "main"
    /\ ser' = NoSer
    /\ model_check' = None
    /\ fSize' = 0
    /\ probe' = 1
    /\ hmif' = Closed
    /\ dcount' = 0
    /\ progress' = << >>
    /\ wire' = << >>
    /\ out' = << >>
    /\ result' = NoResult
    /\ exitCode' = -1
    /\ UNCHANGED argv

Next ==
    \/ Main_ArgCheck
    \/ Main_OpenSerial
    \/ Main_ValidateModel
    \/ Upload_GetSize
    \/ GetBaudrate_Probe
    \/ SetDownloadBaudrate
    \/ TransferFile_Open
    \/ TransferFile_Chunk
    \/ TransferFile_End

Spec == Init /\ [][Next]_vars

\* two invocations in a row
NextRerun == Next \/ Reinvoke

SpecRerun == Init /\ [][NextRerun]_vars

(***************************************************************************)
(* Reading the serial line.                                                *)
(***************************************************************************)
WhmiPrefix == <<"w", "h", "m", "i", "-", "w", "r", "i">>

IsWhmi(ev) ==
    /\ ev.op = "write" /\ ev.kind = "bytes"
    /\ Len(ev.bytes) >= Len(WhmiPrefix)
    /\ SubSeq(ev.bytes, 1, Len(WhmiPrefix)) = WhmiPrefix

IsConnect(ev) == ev.op = "write" /\ ev.kind = "bytes" /\ ev.bytes = connect
IsData(ev) == ev.op = "write" /\ ev.kind = "file"
IsRead(ev) == ev.op = "read"

WhmiAt(w) == { i \in 1..Len(w) : IsWhmi(w[i]) }
DataAt(w) == { i \in 1..Len(w) : IsData(w[i]) }

\* the baud rates at which connect was written, in order
ProbedRates(w) ==
    LET c == SelectSeq(w, IsConnect) IN [i \in 1..Len(c) |-> c[i].baud]

\* the responses read to connect, in order
ProbeResponses(w) ==
    LET c == SelectSeq(w, LAMBDA ev : IsRead(ev) /\ ev.n = HandshakeReadLen)
    IN  [i \in 1..Len(c) |-> c[i].bytes]

Last(s) == s[Len(s)]
Printed(msg) == \E i \in 1..Len(out) : out[i] = msg

(***************************************************************************)
(* C1.  The whmi-wri command is written only after getBaudrate returned    *)
(* success, and a data chunk is written only after setDownloadBaudrate     *)
(* read the ACK byte 0x05 in answer to whmi-wri; a stage that failed is    *)
(* followed by no I/O of a later stage.                                    *)
(***************************************************************************)
C1_StagesGated ==
    /\ \A j \in WhmiAt(wire) :
         /\ result.neg = "ok"
         /\ \E k \in 1..(j - 1) :
              IsRead(wire[k]) /\ Contains(wire[k].bytes, comok)
    /\ \A i \in DataAt(wire) :
         /\ result.neg = "ok" /\ result.up = "ok"
         /\ \E j \in WhmiAt(wire) :
              j + 1 < i /\ IsRead(wire[j + 1]) /\ wire[j + 1].bytes = ACK
    /\ result.neg \notin {"none", "ok"} => WhmiAt(wire) = {} /\ DataAt(wire) = {}
    /\ result.up = "fail" => DataAt(wire) = {}

\* a run in which negotiation, the baud switch and a chunk write happened
C1_Witness ==
    /\ pc = "exited"
    /\ WhmiAt(wire) # {}
    /\ Cardinality(DataAt(wire)) = 2

(***************************************************************************)
(* C2.  The program exits with status 0 exactly when the three stages      *)
(* succeeded; a stage that did not succeed, a bad argument count, an       *)
(* invalid model name and an unopenable device each end the run with a     *)
(* non-zero status and, as the last message, the message of that failure.  *)
(***************************************************************************)
C2_ExitContract ==
    pc = "exited" =>
      /\ exitCode = 0 <=>
           (result.neg = "ok" /\ result.up = "ok" /\ result.xfer = "ok")
      /\ argv.argc \notin {3, 4} => exitCode # 0 /\ Last(out) = "Usage"
      /\ ~argv.devOk =>
           exitCode # 0 /\ Last(out) = "Could not open serial device"
      /\ (argv.argc = 4 /\ ~PatternMatch(argv.model)) =>
           exitCode # 0 /\ Last(out) = "Invalid model name"
      /\ result.neg \notin {"none", "ok"} =>
           exitCode # 0 /\ Last(out) = "Could not find baudrate"
      /\ result.up \notin {"none", "ok"} =>
           exitCode # 0 /\ Last(out) = "Could not set upload speed"
      /\ result.xfer \notin {"none", "ok"} =>
           exitCode # 0 /\ Last(out) = "Transfer failed!"

(***************************************************************************)
(* C3.  connect is written at 115200, 57600, 38400, 19200, 9600 in that    *)
(* order, and no further candidate is probed once a response contains      *)
(* comok; when negotiation has ended and no response contained comok, all  *)
(* five were probed, negotiation failed, and the program has exited        *)
(* non-zero with neither whmi-wri nor a data chunk written.                *)
(***************************************************************************)
C3_DescendingProbes ==
    LET rates == ProbedRates(wire)
        resps == ProbeResponses(wire)
        order == <<115200, 57600, 38400, 19200, 9600>>
    IN  /\ Len(rates) <= 5
        /\ rates = SubSeq(order, 1, Len(rates))
        /\ \A k \in 1..Len(resps) :
             Contains(resps[k], comok) => k = Len(rates)
        /\ (pc \notin {"main", "open", "validate", "upload", "getBaudrate"}
            /\ result.neg # "none"
            /\ \A k \in 1..Len(resps) : ~Contains(resps[k], comok))
           => /\ Len(rates) = 5
              /\ result.neg = "fail"
              /\ pc = "exited" /\ exitCode # 0
              /\ WhmiAt(wire) = {} /\ DataAt(wire) = {}

\* five probes, none answered with comok
C3_Witness ==
    /\ pc = "exited"
    /\ Len(ProbedRates(wire)) = 5
    /\ ComokSeen(wire) = {}
    /\ result.neg = "fail"

(***************************************************************************)
(* What the device reported in the response that contained comok.          *)
(***************************************************************************)
Answered == result.neg # "none" /\ ComokSeen(wire) # {}
Answer == CHOOSE r \in ComokSeen(wire) : TRUE
AnswerFields == split(strip(Answer, {"xFF", "x00"}), ",")
\* the device reported a flash size that reads as an integer
FlashReported == Len(AnswerFields) = 7 /\ int(decode(AnswerFields[7])).ok
ReportedFlash == int(decode(AnswerFields[7])).val
\* the device reported a model
ModelReported == Len(AnswerFields) = 7
ReportedModel == AnswerFields[3]

(***************************************************************************)
(* C4.  After a response with comok, a file whose size is given and is     *)
(* strictly greater than the reported flash size makes negotiation fail    *)
(* with the oversize error, and neither whmi-wri nor a data chunk is       *)
(* written; a file no larger than the reported flash size is not rejected  *)
(* for size.                                                               *)
(***************************************************************************)
C4_Oversize ==
    (Answered /\ FlashReported) =>
      /\ (fSize # 0 /\ fSize > ReportedFlash) =>
           /\ result.neg = "fail"
           /\ Printed("File too big!")
           /\ WhmiAt(wire) = {} /\ DataAt(wire) = {}
      /\ fSize <= ReportedFlash => ~Printed("File too big!")

(***************************************************************************)
(* C5.  After a response with comok, an expected model that the reported   *)
(* model does not contain makes negotiation fail with the wrong-display    *)
(* error, and neither whmi-wri nor a data chunk is written; when the       *)
(* reported model contains the expected model, or none is given, the       *)
(* wrong-display error is not reported.                                    *)
(***************************************************************************)
C5_WrongDisplay ==
    (Answered /\ ModelReported) =>
      /\ (model_check # None
          /\ ~Contains(ReportedModel, encode(model_check))) =>
           /\ result.neg = "fail"
           /\ Printed("Wrong Display!")
           /\ WhmiAt(wire) = {} /\ DataAt(wire) = {}
      /\ (model_check = None
          \/ Contains(ReportedModel, encode(model_check))) =>
           ~Printed("Wrong Display!")

(***************************************************************************)
(* C6.  With an expected-model argument that does not match the pattern,   *)
(* nothing is ever written to or read from the serial device, and once the *)
(* model check is passed the program has exited with status 1.             *)
(***************************************************************************)
C6_RejectedBeforeIO ==
    (argv.argc = 4 /\ ~PatternMatch(argv.model)) =>
      /\ wire = << >>
      /\ pc \in {"main", "open", "validate", "exited"}
      /\ pc = "exited" => exitCode = 1 /\ Last(out) = "Invalid model name"

\* the run with an invalid model name has ended, the device being open
C6_Witness ==
    /\ pc = "exited"
    /\ argv.argc = 4 /\ ~PatternMatch(argv.model)
    /\ ser.is_open
    /\ exitCode = 1

(***************************************************************************)
(* C7.  The model-name check accepts exactly the names NX, four digits,    *)
(* T or K, three digits, with nothing before or after.                     *)
(***************************************************************************)
ExactModelName(s) ==
    /\ Len(s) = 10
    /\ s[1] = "N" /\ s[2] = "X"
    /\ \A i \in 3..6 : s[i] \in Digits
    /\ s[7] \in {"T", "K"}
    /\ \A i \in 8..10 : s[i] \in Digits

C7_PatternExact ==
    (argv.argc = 4 /\ pc \notin {"main", "open", "validate"}) =>
      (Printed("Invalid model name") <=> ~ExactModelName(argv.model))

(***************************************************************************)
(* C8.  setDownloadBaudrate succeeds exactly when the byte read after the  *)
(* baud switch is 0x05; any other byte, and an empty read, is a failure,   *)
(* after which the program has exited non-zero; whmi-wri is written at     *)
(* most once.                                                              *)
(***************************************************************************)
C8_UpgradeAck ==
    /\ Cardinality(WhmiAt(wire)) <= 1
    /\ result.up # "none" =>
         /\ Cardinality(WhmiAt(wire)) = 1
         /\ \A j \in WhmiAt(wire) :
              /\ j < Len(wire) /\ IsRead(wire[j + 1]) /\ wire[j + 1].n = 1
              /\ result.up = "ok" <=> wire[j + 1].bytes = <<"x05">>
         /\ result.up # "ok" =>
              /\ result.up = "fail"
              /\ pc = "exited" /\ exitCode # 0
              /\ Last(out) = "Could not set upload speed"

\* the baud switch was answered by nothing or by another byte
C8_Witness ==
    /\ result.up = "fail"
    /\ \E j \in WhmiAt(wire) : wire[j + 1].bytes = <<"x15">>

(***************************************************************************)
(* C9.  transferFile succeeds exactly when every chunk written was         *)
(* followed by a read of 0x05; when the read after chunk k is not 0x05,    *)
(* the transfer has failed at once: k chunks were written, the k-1 before  *)
(* it were acknowledged, and the program has exited.                       *)
(***************************************************************************)
Acked(i) == i < Len(wire) /\ IsRead(wire[i + 1]) /\ wire[i + 1].bytes = <<"x05">>
Refused(i) == i < Len(wire) /\ IsRead(wire[i + 1]) /\ wire[i + 1].bytes # <<"x05">>

C9_ChunkAck ==
    LET data == DataAt(wire)
        unacked == { i \in data : ~Acked(i) }
        refused == { i \in data : Refused(i) }
    IN  /\ \A i \in data :
             Acked(i) \/ Refused(i) \/ result.xfer = "ZeroDivisionError"
        /\ result.xfer = "ok" => unacked = {}
        /\ (pc = "exited" /\ data # {} /\ unacked = {}) => result.xfer = "ok"
        /\ refused # {} =>
             /\ result.xfer = "fail"
             /\ pc = "exited" /\ exitCode # 0
             /\ \A i \in refused : \A j \in data : j <= i
             /\ Cardinality(refused) = 1
             /\ Cardinality(data) = Len(progress)
             /\ \A i \in data \ refused : Acked(i)
             /\ Cardinality(data \ refused) = Len(progress) - 1
        /\ result.xfer = "fail" => refused # {}

\* the second chunk was not acknowledged
C9_Witness ==
    /\ result.xfer = "fail"
    /\ Cardinality(DataAt(wire)) = 2
    /\ Cardinality({ i \in DataAt(wire) : Acked(i) }) = 1

(***************************************************************************)
(* C10.  Run again against the device now at the upload baud rate, with    *)
(* the same file, expected model and device answers, the program ends as   *)
(* the first invocation did: the same negotiation, baud-switch and         *)
(* transfer results and the same exit status.                              *)
(***************************************************************************)
C10_SameOutcome ==
    (run = 2 /\ pc = "exited") =>
      /\ result = prev.result
      /\ exitCode = prev.exitCode

\* the first invocation negotiated below 115200, the second at 115200, and
\* both transferred the file
C10_Witness ==
    /\ run = 2 /\ pc = "exited" /\ exitCode = 0
    /\ Len(ProbedRates(prev.wire)) > 1
    /\ Len(ProbedRates(wire)) = 1
    /\ DataAt(wire) # {}

(***************************************************************************)
(* The model-name check alone, over names near a valid one: one character  *)
(* replaced, removed, appended or put in front.                            *)
(***************************************************************************)
NameChars ==
    {"N", "X", "T", "K", "A", "n", "x", "t", "0", "5", "9", " ", "_", "LF"}

PatternInputs ==
    { [NX3224T024 EXCEPT ![i] = c] : i \in 1..Len(NX3224T024), c \in NameChars }
    \cup { SubSeq(NX3224T024, 1, i - 1) \o SubSeq(NX3224T024, i + 1, 10)
             : i \in 1..Len(NX3224T024) }
    \cup { Append(NX3224T024, c) : c \in NameChars }
    \cup { <<c>> \o NX3224T024 : c \in NameChars }
    \cup { << >>, NX4832K035 }

InitPattern ==
    /\ argv \in { [argc |-> 4, exists |-> TRUE, size |-> 0, devOk |-> TRUE,
                   model |-> m] : m \in PatternInputs }
    /\ Started
    /\ run = 1
    /\ prev = NoPrev

NextPattern == Main_ArgCheck \/ Main_OpenSerial \/ Main_ValidateModel

SpecPattern == InitPattern /\ [][NextPattern]_vars

(***************************************************************************)
(* C11.  For every response that contains comok, getBaudrate ends by       *)
(* returning success or failure: no content of the response ends the       *)
(* program with an exception.                                              *)
(***************************************************************************)
C11_ParseNeverFatal ==
    Answered => result.neg \in {"ok", "fail"}

(***************************************************************************)
(* C12.  whmi-wri is written at the baud rate at which negotiation         *)
(* succeeded, the rate of the probe whose response contained comok; the    *)
(* connection is at the upload rate only after that write, and the ACK     *)
(* byte is read at the upload rate.                                        *)
(***************************************************************************)
\* the rate of the probe whose response contained comok
NegotiatedRate ==
    LET k == CHOOSE i \in 1..Len(wire) :
                 IsRead(wire[i]) /\ Contains(wire[i].bytes, comok)
    IN  wire[k].baud

C12_WriteBeforeSwitch ==
    /\ pc = "setDownloadBaudrate" => ser.baudrate = NegotiatedRate
    /\ \A j \in WhmiAt(wire) :
         /\ wire[j].baud = NegotiatedRate
         /\ wire[j].baud = Last(ProbedRates(wire))
         /\ j < Len(wire) /\ IsRead(wire[j + 1])
         /\ wire[j + 1].baud = 115200
         /\ ser.baudrate = 115200

\* negotiated at 9600: whmi-wri went out at 9600, the ACK came in at 115200
C12_Witness ==
    /\ WhmiAt(wire) # {}
    /\ NegotiatedRate = 9600
    /\ \E j \in WhmiAt(wire) : wire[j].baud = 9600 /\ wire[j + 1].baud = 115200

(***************************************************************************)
(* C13.  The file is written in file order, in chunks of exactly 4096      *)
(* bytes except the last, which has 1 to 4096 bytes; a transfer of n > 0   *)
(* bytes in which every chunk is acknowledged writes ceil(n / 4096) chunks *)
(* and n bytes in all.                                                     *)
(***************************************************************************)
DataWrites == SelectSeq(wire, IsData)

RECURSIVE BytesWritten(_)
BytesWritten(d) == IF d = << >> THEN 0 ELSE Head(d).n + BytesWritten(Tail(d))

C13_ChunkLayout ==
    LET d == DataWrites
    IN  /\ \A k \in 1..Len(d) :
             /\ d[k].off = (k - 1) * 4096
             /\ d[k].n \in 1..4096
             /\ d[k].off + d[k].n <= argv.len
             /\ d[k].n # 4096 => d[k].off + d[k].n = argv.len
        /\ (result.xfer = "ok" /\ argv.len > 0) =>
             /\ Len(d) = (argv.len + 4095) \div 4096
             /\ BytesWritten(d) = argv.len

\* 4097 bytes went out as a chunk of 4096 and a chunk of 1
C13_Witness ==
    /\ result.xfer = "ok"
    /\ argv.len = 4097
    /\ Len(DataWrites) = 2
    /\ DataWrites[2].n = 1

(***************************************************************************)
(* C14.  Within one run nothing is retried, whatever the device answers:   *)
(* connect is written at most once at each candidate baud rate, whmi-wri   *)
(* is written at most once, each file chunk is written at most once, and   *)
(* nothing is written after an acknowledge read that brought no 0x05.      *)
(***************************************************************************)
C14_NothingRetried ==
    LET p == ProbedRates(wire)
        d == DataWrites
    IN  /\ \A i, j \in 1..Len(p) : p[i] = p[j] => i = j
        /\ Cardinality(WhmiAt(wire)) <= 1
        /\ \A i, j \in 1..Len(d) : d[i].off = d[j].off => i = j
        /\ \A i \in 1..Len(wire) :
             (IsAckRead(wire[i]) /\ ~Contains(wire[i].bytes, ACK))
                 => i = Len(wire)

\* all five rates probed, then the second chunk refused: the run just ends
C14_Witness ==
    /\ pc = "exited"
    /\ Len(ProbedRates(wire)) = 5
    /\ Cardinality(WhmiAt(wire)) = 1
    /\ Len(DataWrites) = 2
    /\ result.xfer = "fail"

(***************************************************************************)
(* C15.  Every command written to the device, connect and whmi-wri, is     *)
(* followed at once by the three bytes 0xFF 0xFF 0xFF, before any read;    *)
(* once file data is being written, no delimiter (and nothing but file     *)
(* data) is written any more.                                              *)
(***************************************************************************)
IsWrite(ev) == ev.op = "write"

\* the bytes put on the wire from event i up to the next read
RECURSIVE Outbound(_, _)
Outbound(w, i) ==
    IF i > Len(w) \/ ~IsWrite(w[i]) THEN << >>
    ELSE (IF w[i].kind = "bytes" THEN w[i].bytes ELSE <<"data">>)
         \o Outbound(w, i + 1)

EndsCommand(bytes, cmdLen) ==
    /\ Len(bytes) >= cmdLen + 3
    /\ SubSeq(bytes, cmdLen + 1, cmdLen + 3) = <<"xFF", "xFF", "xFF">>

C15_Delimited ==
    /\ \A i \in 1..Len(wire) :
         IsConnect(wire[i]) => EndsCommand(Outbound(wire, i), 7)
    /\ \A i \in WhmiAt(wire) :
         LET o == Outbound(wire, i)
             cmd == SelectSeq(o, LAMBDA c : c # "xFF")
         IN  /\ EndsCommand(o, Len(cmd))
             /\ Len(o) = Len(cmd) + 3
             /\ cmd = <<"w", "h", "m", "i", "-", "w", "r", "i", " ">>
                        \o str(fSize) \o <<",", "1", "1", "5", "2", "0", "0",
                                           ",", "0">>
    /\ \A i \in DataAt(wire) : \A j \in i..Len(wire) :
         IsWrite(wire[j]) => IsData(wire[j])

\* both commands and two chunks went out
C15_Witness ==
    /\ \E i \in 1..Len(wire) : IsConnect(wire[i])
    /\ WhmiAt(wire) # {}
    /\ Len(DataWrites) = 2
    /\ result.xfer = "ok"

(***************************************************************************)
(* C16.  The upload file is open only while transferFile runs; it has been *)
(* closed when transferFile has returned, with True as with False, and so  *)
(* whenever the program has reported the result and exited.                *)
(***************************************************************************)
C16_HandleScoped ==
    /\ hmif.open => pc = "chunk"
    /\ pc = "chunk" => hmif.open
    /\ result.xfer # "none" => ~hmif.open
    /\ pc = "exited" => ~hmif.open

\* the second chunk was refused: transferFile returned False from inside the
\* with block
C16_Witness ==
    /\ pc = "exited"
    /\ result.xfer = "fail"
    /\ Len(DataWrites) = 2
    /\ ~hmif.open

(***************************************************************************)
(* C17.  After each chunk written, the progress shown is the number of     *)
(* bytes written so far as a percentage of the file size (to the one       *)
(* decimal that is printed); the values shown never decrease, never exceed *)
(* 100.0, and the last one is 100.0 when every chunk was acknowledged.     *)
(***************************************************************************)
Abs(x) == IF x < 0 THEN 0 - x ELSE x

C17_Progress ==
    LET d == DataWrites
    IN  /\ Len(progress) = Len(d)
        /\ \A k \in 1..Len(progress) :
             LET written == BytesWritten(SubSeq(d, 1, k))
             IN  /\ 2 * Abs(progress[k] * fSize - 1000 * written) <= fSize
                 /\ progress[k] <= 1000
                 /\ k > 1 => progress[k - 1] <= progress[k]
        /\ progress # << >> => dcount = BytesWritten(d)
        /\ (result.xfer = "ok" /\ fSize > 0) => Last(progress) = 1000

(***************************************************************************)
(* C18.  Whatever rate the negotiation succeeded at, every file data chunk *)
(* is written with the connection at 115200 baud: the rate is 115200 from  *)
(* the moment setDownloadBaudrate has succeeded, before the first chunk,   *)
(* and no later step changes it.                                           *)
(***************************************************************************)
C18_DataAtUploadBaud ==
    /\ [](/\ \A i \in DataAt(wire) : \A j \in i..Len(wire) :
                wire[j].baud = 115200
          /\ result.up = "ok" => ser.baudrate = 115200
          /\ pc \in {"transferFile", "chunk"} => result.up = "ok")
    /\ [][result.up = "ok" => ser'.baudrate = ser.baudrate]_vars

\* negotiated at 9600, both chunks written at 115200
C18_Witness ==
    /\ WhmiAt(wire) # {}
    /\ NegotiatedRate = 9600
    /\ Len(DataWrites) = 2
    /\ \A k \in 1..2 : DataWrites[k].baud = 115200
    /\ ser.baudrate = 115200

(***************************************************************************)
(* C19.  Every run terminates.  The program is one sequential process and  *)
(* each of its reads returns within the timeout set before it (lines 96,   *)
(* 137, 158), so a step that is possible is eventually taken: weak         *)
(* fairness of Next.  Then the program reaches an exit, after at most 5    *)
(* connect probes, one whmi-wri and ceil(n / 4096) chunk writes for a file *)
(* of n bytes, whatever the device answers.                                *)
(***************************************************************************)
SpecLive == Spec /\ WF_vars(Next)

C19_Terminates ==
    /\ <>[](pc = "exited")
    /\ [](/\ Len(ProbedRates(wire)) <= 5
          /\ Cardinality(WhmiAt(wire)) <= 1
          /\ Len(DataWrites) <= (argv.len + 4095) \div 4096
          /\ Len(SelectSeq(wire, IsRead))
               <= 5 + 1 + (argv.len + 4095) \div 4096)

\* the longest run: five probes, the switch, every chunk of an 8192-byte file
C19_Witness ==
    /\ pc = "exited"
    /\ exitCode = 0
    /\ Len(ProbedRates(wire)) = 5
    /\ Cardinality(WhmiAt(wire)) = 1
    /\ argv.len = 8192
    /\ Len(DataWrites) = 2

(***************************************************************************)
(* C20.  For an empty file the flash-size check is skipped: when the size  *)
(* is 0 negotiation never fails for size, and the reported flash size is   *)
(* not parsed, so a well-formed answer does not raise whatever its flash   *)
(* field holds.  If the handshake and the acknowledge of the baud switch   *)
(* succeed and the file opens, transferFile finds nothing to read: it      *)
(* writes no chunk, reads no acknowledge, reports no progress and returns  *)
(* True, and the program exits with status 0.                              *)
(***************************************************************************)
C20_EmptyFile ==
    (Answered /\ argv.size = 0) =>
      /\ fSize = 0
      /\ ~Printed("File too big!")
      /\ (Len(AnswerFields) = 7 /\ Len(split(AnswerFields[1], " ")) >= 2) =>
           /\ result.neg \in {"ok", "fail"}
           /\ result.neg = "fail" => Printed("Wrong Display!")
      /\ (result.up = "ok" /\ argv.len = 0) =>
           /\ pc \in {"transferFile", "chunk", "exited"}
           /\ DataAt(wire) = {}
           /\ Len(AckReadsOf(wire)) = 1
           /\ progress = << >>
           /\ dcount = 0
           /\ result.xfer # "fail"
           /\ pc = "exited" =>
                /\ result.xfer = "ok"
                /\ exitCode = 0
                /\ Last(out) = "File transferred successfully"

\* an empty file uploaded to a device whose flash field is no number
C20_Witness ==
    /\ pc = "exited"
    /\ exitCode = 0
    /\ argv.exists /\ argv.size = 0 /\ argv.len = 0
    /\ Len(AnswerFields) = 7 /\ ~FlashReported
    /\ result.xfer = "ok"
    /\ DataAt(wire) = {}

====
